---- MODULE Spec2Model ----
(***************************************************************************)
(* Model of the tile probing scripts of editor-layer-index:                *)
(*   scripts/highres_tile_checker.py  (does a tms source serve @2x tiles)  *)
(*   scripts/sync_tms_minzoom.py      (discover the minimum useful zoom)   *)
(* Both scripts share get_url: a host-serialized, memoizing, retrying      *)
(* fetcher run by many asyncio tasks.  Every await of the code is a        *)
(* scheduling point of the model.                                          *)
(***************************************************************************)
EXTENDS Integers, Sequences, FiniteSets, TLC

\* ------------------------------------------------------------------ bounds
NumTasks == 2        \* concurrently launched tasks (jobs handed to gather)
MaxFaults == 2       \* transport attempts of a run that fail (timeout or exception)

Tasks == 1..NumTasks
NoTask == 0

\* Python's None, and a present value, for the optional fields
None == <<>>
Some(v) == <<v>>

VARIABLES
  script,          \* which script runs: "highres" or "minzoom"
  server,          \* what the remote service answers for each URL
  faults,          \* failed transport attempts so far
  response_cache,  \* dict url -> RequestResult
  domain_locks,    \* dict netloc -> index of its asyncio.Lock in locks
  locks,           \* the asyncio.Lock objects created: holder task or NoTask
  domain_lock,     \* holder of the global creation lock, or NoTask
  pc,              \* position of each task in its caller (process_source)
  gpc,             \* position of each task inside get_url
  url,             \* get_url argument url of each task
  lock,            \* get_url local variable lock of each task
  i,               \* get_url loop variable i of each task
  ret,             \* value returned by the task's last get_url call
  calls,           \* session.request invocations per url (what a mock transport counts)
  succeeded,       \* has an attempt of the task's current get_url call got a response
  delivered,       \* every (url, RequestResult) pair get_url has returned so far
  files,           \* the sources directory: the record stored in each task's file
  writes,          \* how often each file has been written
  source,          \* process_source local source: the record read from the file
  zoom,            \* the zoom process_source is probing
  previous_images, \* process_source local previous_images (minzoom)
  min_zoom,        \* process_source local min_zoom (minzoom)
  image_hash,      \* process_source local image_hash (minzoom)
  fetched,         \* the urls each source's probe has called get_url with, in order
  got,             \* the results the highres probe of each source has received, in order
  reported         \* sources logged as "Supports @2x"

fetchVars == <<response_cache, domain_locks, locks, domain_lock, gpc, url, lock,
               i, ret, calls, succeeded, delivered, faults>>
probeVars == <<files, writes, source, zoom, previous_images, min_zoom, image_hash,
               fetched, got, reported>>
vars == <<script, server, pc, fetchVars, probeVars>>

\* ------------------------------------------------------------ URLs, results
\* A URL string, by the parts urlparse splits it into and the substituted
\* template parameters.  A URL written without "scheme://" has an empty netloc.
\* y is the text substituted for the row placeholder, a number <<num, den>>;
\* retina is the "@2x" rewrite of the path ("" when there is none).
mkURL(netloc, path, z, x, y, retina) ==
  [netloc |-> netloc, path |-> path, zoom |-> z, x |-> x, y |-> y, retina |-> retina]

urlparse(u) == [netloc |-> u.netloc, path |-> u.path]

\* RequestResult = namedtuple(['status', 'text', 'exception'], defaults=[None, None, None])
RequestResult(status, text, exception) ==
  [status |-> status, text |-> text, exception |-> exception]

\* placeholders of a task that is in no get_url call
NoURL == mkURL("", "", 0, 0, <<0, 1>>, "")
NoResult == RequestResult(None, None, None)

\* The class attribute RequestResult.exception: the field's descriptor object
RequestResult_exception == Some("_tuplegetter")

\* range(3) in the highres checker, range(2) in the minzoom sync
Budget_highres == 3
Budget_minzoom == 2
Budget == IF script = "highres" THEN Budget_highres ELSE Budget_minzoom

\* ------------------------------------------------------- source records
\* A url template, by what the code looks at: the netloc for each {switch:...}
\* alternative (one entry when the template has no switch), the path, and
\* marks, the substrings the code tests for or replaces that the url contains.
Template(hosts, path, marks) == [hosts |-> hosts, path |-> path, marks |-> marks]

\* s in url
Contains(tpl, s) == s \in tpl.marks

\* A source file's record: properties type, url, country_code, min_zoom,
\* max_zoom (None when the key is absent), and the representative point of
\* its geometry (None without geometry) in Web Mercator unit-square
\* coordinates, each a fraction <<p, q>>.
Record(type, tpl, country_code, minz, maxz, geometry) ==
  [type |-> type, url |-> tpl, country_code |-> country_code,
   min_zoom |-> minz, max_zoom |-> maxz, geometry |-> geometry]

NoTemplate == Template(<<"">>, "", {})
NoRecord == Record("", NoTemplate, None, None, None, None)

\* ----------------------------------------------------------- tile addresser
Pow2(n) == IF n <= 0 THEN 1 ELSE 2 ^ n

\* mercantile.tile: column and row of the tile holding the point at a zoom
Tile(c, z) == [x |-> (c[1][1] * Pow2(z)) \div c[1][2],
               y |-> (c[2][1] * Pow2(z)) \div c[2][2]]

\* (variant: the flipped row is counted from 2 ** zoom)
RowText_from_top(tpl, z, row) ==
  IF Contains(tpl, "{-y}") THEN <<Pow2(z) - row, 1>>
  ELSE IF Contains(tpl, "{!y}") THEN <<Pow2(z - 1) - row, 1>>
  ELSE <<row, 1>>

\* the text substituted for the row placeholder: {-y}, else {!y}, else {y}
\* (2 ** (zoom - 1) is the float 0.5 at zoom 0)
RowText(tpl, z, row) ==
  IF Contains(tpl, "{-y}") THEN <<Pow2(z) - 1 - row, 1>>
  ELSE IF Contains(tpl, "{!y}")
    THEN (IF z >= 1 THEN <<Pow2(z - 1) - 1 - row, 1>> ELSE <<1 - 2 - 2 * row, 2>>)
  ELSE <<row, 1>>

\* the known raster extensions are looked for in the path; "@2x" goes before
\* the extension found, or at the end of the path
RetinaText(tpl, highres) ==
  IF ~highres THEN ""
  ELSE IF Contains(tpl, ".ext") THEN "@2x.ext" ELSE "@2x"

\* the netloc after "{switch:a,b,c}" is filled with its first alternative
Netloc(tpl) == tpl.hosts[1]

\* test_zoom's query_url for a template, a point and a zoom
QueryUrl(tpl, c, z, highres) ==
  mkURL(Netloc(tpl), tpl.path, z, Tile(c, z).x, RowText(tpl, z, Tile(c, z).y),
        RetinaText(tpl, highres))

\* ------------------------------------------------------------ the transport
\* Bodies a service can answer with
Bodies == {"img256_H", "img256_D", "img256_zero", "img512_H", "html"}
IsText(b) == b = "html"

Response(status, body) == [kind |-> "response", status |-> status, body |-> body]
Timeout == [kind |-> "timeout", status |-> 0, body |-> ""]
Error == [kind |-> "error", status |-> 0, body |-> ""]

\* what the service does with a request: it answers, or it is down (status 0)
Answer(u) ==
  IF server[u].status = 0 THEN Timeout ELSE Response(server[u].status, server[u].body)

\* What one session.request attempt can end in: what the service does, or,
\* while the run's transient failures are not used up, a timeout or another
\* exception
Outcomes(u) ==
  (IF u \in DOMAIN server THEN {Answer(u)} ELSE {})
    \cup (IF faults < MaxFaults THEN {Timeout, Error} ELSE {})

Lookup(d, k, default) == IF k \in DOMAIN d THEN d[k] ELSE default
Put(d, k, v) == [x \in DOMAIN d \cup {k} |-> IF x = k THEN v ELSE d[x]]

Calls(u) == Lookup(calls, u, 0)

\* ------------------------------------------------------------------ get_url
\* (variant: the netloc test is missing)
HasNetloc_unchecked(u) == TRUE

\* o = urlparse(url); if len(o.netloc) == 0: return RequestResult(exception=...)
HasNetloc(u) == urlparse(u).netloc # ""

\* (variant: a failed attempt stores a result with no field set)
StoreResult_blank_failure(u, with_text, with_data, out) ==
  IF out.kind # "response" THEN RequestResult(None, None, None)
  ELSE RequestResult(Some(out.status), Some(<<"bytes", out.body>>), None)

\* what one attempt stores in response_cache[url]
StoreResult(u, with_text, with_data, out) ==
  CASE out.kind = "timeout" -> RequestResult(None, None, Some(<<"Timeout for", u>>))
    [] out.kind = "error" -> RequestResult(None, None, Some(<<"Exception for", u>>))
    [] OTHER ->
         IF with_text
           THEN RequestResult(Some(out.status),
                              Some(<<IF IsText(out.body) THEN "str" ELSE "bytes", out.body>>),
                              None)
         ELSE IF with_data
           THEN RequestResult(Some(out.status), Some(<<"bytes", out.body>>), None)
         ELSE RequestResult(Some(out.status), None, None)

\* if RequestResult.exception is None: break
Break(result) == RequestResult_exception = None

\* (variant: a cached failure is fetched again)
NotCached_retry_failures(u) ==
  u \notin DOMAIN response_cache \/ response_cache[u].exception # None

\* url not in response_cache
NotCached(u) == u \notin DOMAIN response_cache

\* (variant: one lock per url instead of one per netloc)
LockKey_per_url(u) == u

\* the key of domain_locks a url is serialized under: o.netloc
LockKey(u) == urlparse(u).netloc

\* (variant: the host lock is entered without waiting for its holder)
LockFree_no_wait(l) == TRUE

\* an asyncio.Lock that is not locked is acquired without waiting
LockFree(l) == locks[l] = NoTask

\* for i in range(budget): the loop ends on break or when the range is used up
LoopEnds(result, n) == Break(result) \/ n >= Budget

\* A call get_url(u) by task t, up to its first await: a url without netloc
\* returns at once, any other call goes on to "async with domain_lock"
CallGetUrl(t, u) ==
  /\ url' = [url EXCEPT ![t] = u]
  /\ lock' = [lock EXCEPT ![t] = 0]
  /\ i' = [i EXCEPT ![t] = 0]
  /\ succeeded' = [succeeded EXCEPT ![t] = FALSE]
  /\ IF HasNetloc(u)
       THEN /\ gpc' = [gpc EXCEPT ![t] = "domain_lock"]
            /\ ret' = [ret EXCEPT ![t] = NoResult]
            /\ UNCHANGED delivered
       ELSE /\ ret' = [ret EXCEPT ![t] =
                         RequestResult(None, None, Some(<<"Could not parse URL", u>>))]
            /\ delivered' = delivered \cup {<<u, ret'[t]>>}
            /\ gpc' = [gpc EXCEPT ![t] = "returned"]
  /\ UNCHANGED <<response_cache, domain_locks, locks, domain_lock, calls, faults>>

\* async with domain_lock: (acquire)
AcquireDomainLock(t) ==
  /\ gpc[t] = "domain_lock"
  /\ domain_lock = NoTask
  /\ domain_lock' = t
  /\ gpc' = [gpc EXCEPT ![t] = "lookup"]
  /\ UNCHANGED <<response_cache, domain_locks, locks, url, lock, i, ret, calls,
                 succeeded, delivered, faults>>

\* (variant: the registry is not looked at, a lock is created on every call)
Registered_never(host) == FALSE

\* o.netloc in domain_locks
Registered(host) == host \in DOMAIN domain_locks

\* (variant: "async with lock" is nested in the block of "async with domain_lock")
BlockExit_nested(t) == t

\* the holder of domain_lock once the block of "async with domain_lock" is left
BlockExit(t) == NoTask

\* the body of "async with domain_lock" and its release
LookupHostLock(t) ==
  LET host == LockKey(url[t]) IN
  /\ gpc[t] = "lookup"
  /\ IF ~Registered(host)
       THEN /\ locks' = Append(locks, NoTask)
            /\ domain_locks' = Put(domain_locks, host, Len(locks) + 1)
       ELSE UNCHANGED <<locks, domain_locks>>
  /\ lock' = [lock EXCEPT ![t] = domain_locks'[host]]
  /\ domain_lock' = BlockExit(t)
  /\ gpc' = [gpc EXCEPT ![t] = "lock"]
  /\ UNCHANGED <<response_cache, url, i, ret, calls, succeeded, delivered, faults>>

\* async with lock: the host's lock is acquired, and the code runs on to its
\* next await: a cached url returns at once (the lock is released again),
\* any other url sends its first session.request
AcquireHostLock(t) ==
  /\ gpc[t] = "lock"
  /\ LockFree(lock[t])
  /\ IF NotCached(url[t])
       THEN /\ locks' = [locks EXCEPT ![lock[t]] = t]
            /\ i' = [i EXCEPT ![t] = 0]
            /\ calls' = Put(calls, url[t], Calls(url[t]) + 1)
            /\ gpc' = [gpc EXCEPT ![t] = "request"]
            /\ UNCHANGED <<ret, delivered>>
       ELSE /\ ret' = [ret EXCEPT ![t] = response_cache[url[t]]]
            /\ delivered' = delivered \cup {<<url[t], response_cache[url[t]]>>}
            /\ gpc' = [gpc EXCEPT ![t] = "returned"]
            /\ UNCHANGED <<locks, i, calls>>
  /\ UNCHANGED <<response_cache, domain_locks, domain_lock, url, lock, succeeded, faults>>

\* (variant: the host lock stays held when the call returns a failure)
LockExit_held_on_failure(t, result) == IF result.exception # None THEN t ELSE NoTask

\* the holder of the host lock once the block of "async with lock" is left,
\* whatever the call returns
LockExit(t, result) == NoTask

\* The request in flight ends: its result is stored in response_cache[url];
\* then either the loop sends the next session.request, or get_url returns
\* response_cache[url] and leaves "async with lock"
Respond(t) ==
  /\ gpc[t] = "request"
  /\ \E out \in Outcomes(url[t]) :
       LET result == StoreResult(url[t], FALSE, TRUE, out) IN
       /\ response_cache' = Put(response_cache, url[t], result)
       /\ succeeded' = [succeeded EXCEPT ![t] = @ \/ out.kind = "response"]
       /\ faults' = IF out = Answer(url[t]) THEN faults ELSE faults + 1
       /\ i' = [i EXCEPT ![t] = @ + 1]
       /\ IF LoopEnds(result, i[t] + 1)
            THEN /\ ret' = [ret EXCEPT ![t] = response_cache'[url[t]]]
                 /\ delivered' = delivered \cup {<<url[t], response_cache'[url[t]]>>}
                 /\ locks' = [locks EXCEPT ![lock[t]] = LockExit(t, result)]
                 /\ gpc' = [gpc EXCEPT ![t] = "returned"]
                 /\ UNCHANGED calls
            ELSE /\ calls' = Put(calls, url[t], Calls(url[t]) + 1)
                 /\ UNCHANGED <<ret, delivered, locks, gpc>>
  /\ UNCHANGED <<domain_locks, domain_lock, url, lock>>

get_url(t) ==
  \/ AcquireDomainLock(t)
  \/ LookupHostLock(t)
  \/ AcquireHostLock(t)
  \/ Respond(t)

\* the state of the module globals and of the tasks before any call
FetchInit ==
  /\ response_cache = <<>>
  /\ domain_locks = <<>>
  /\ locks = <<>>
  /\ domain_lock = NoTask
  /\ gpc = [t \in Tasks |-> "none"]
  /\ url = [t \in Tasks |-> NoURL]
  /\ lock = [t \in Tasks |-> 0]
  /\ i = [t \in Tasks |-> 0]
  /\ ret = [t \in Tasks |-> NoResult]
  /\ calls = <<>>
  /\ succeeded = [t \in Tasks |-> FALSE]
  /\ delivered = {}

\* ------------------------------------------- get_url under concurrent callers
\* The URLs the callers of a run fetch: one without netloc, and either
\* two of one host or two of different hosts
UrlA1 == mkURL("a.example", "/{zoom}/{x}/{y}.png", 1, 1, <<1, 1>>, "")
UrlA2 == mkURL("a.example", "/{zoom}/{x}/{y}.png", 2, 2, <<2, 1>>, "")
UrlB1 == mkURL("b.example", "/{zoom}/{x}/{y}.png", 1, 1, <<1, 1>>, "")
UrlNoHost == mkURL("", "tiles/{zoom}/{x}/{y}.png", 1, 1, <<1, 1>>, "")
FetchWorkloads == {{UrlA1, UrlA2, UrlNoHost}, {UrlA1, UrlB1, UrlNoHost}}

\* get_url never looks at what a response carries, so the service's answers are fixed
FetchServer(urls) == [u \in urls |->
  IF u.zoom = 1 THEN [status |-> 200, body |-> "img256_H"]
                ELSE [status |-> 404, body |-> "html"]]

\* no source is being processed
ProbeInit ==
  /\ source = [t \in Tasks |-> NoRecord]
  /\ zoom = [t \in Tasks |-> 0]
  /\ previous_images = [t \in Tasks |-> <<>>]
  /\ min_zoom = [t \in Tasks |-> None]
  /\ image_hash = [t \in Tasks |-> None]
  /\ fetched = [t \in Tasks |-> <<>>]
  /\ got = [t \in Tasks |-> <<>>]
  /\ writes = [t \in DOMAIN files |-> 0]
  /\ reported = {}

Init ==
  /\ script \in {"highres", "minzoom"}
  /\ \E urls \in FetchWorkloads : server = FetchServer(urls)
  /\ pc = [t \in Tasks |-> "idle"]
  /\ faults = 0
  /\ FetchInit
  /\ files = <<>>
  /\ ProbeInit

\* response = await get_url(query_url, session, with_data=True)
Call(t) ==
  /\ pc[t] = "idle"
  /\ \E u \in DOMAIN server : CallGetUrl(t, u)
  /\ pc' = [pc EXCEPT ![t] = "await_get_url"]
  /\ UNCHANGED <<script, server, probeVars>>

\* the frame of a finished get_url call is gone once its caller has resumed
Forget(t) ==
  /\ gpc' = [gpc EXCEPT ![t] = "none"]
  /\ url' = [url EXCEPT ![t] = NoURL]
  /\ lock' = [lock EXCEPT ![t] = 0]
  /\ i' = [i EXCEPT ![t] = 0]
  /\ ret' = [ret EXCEPT ![t] = NoResult]
  /\ succeeded' = [succeeded EXCEPT ![t] = FALSE]

\* the awaiting caller resumes with the result
Resume(t) ==
  /\ pc[t] = "await_get_url"
  /\ gpc[t] = "returned"
  /\ Forget(t)
  /\ pc' = [pc EXCEPT ![t] = "idle"]
  /\ UNCHANGED <<script, server, response_cache, domain_locks, locks, domain_lock,
                 calls, delivered, faults, probeVars>>

Fetch(t) == get_url(t) /\ UNCHANGED <<script, server, pc, probeVars>>

Next == \E t \in Tasks : Call(t) \/ Fetch(t) \/ Resume(t)

Spec == Init /\ [][Next]_vars

\* ------------------------------------------------------ sync_tms_minzoom.py
\* for zoom in range(20)
NumZooms == 20

\* Image.open(BytesIO(response.text)) succeeds
IsImage(b) == b \in {"img256_H", "img256_D", "img256_zero", "img256_ones", "img512_H"}

\* img.size: the side of the square tile
ImageSize(b) == IF b = "img512_H" THEN 512 ELSE 256

\* str(imagehash.average_hash(img)): 16 lower-case hex digits
HashText(b) ==
  CASE b = "img256_zero" -> "0000000000000000"
    [] b = "img256_ones" -> "ffffffffffffffff"
    [] b = "img256_D" -> "3c3c7e7e7e7e3c3c"
    [] OTHER -> "00183c7e7e3c1800"

\* the representative point of the geometry, or Point(0, 0)
Centroid_minzoom(src) ==
  IF src.geometry # None THEN src.geometry[1] ELSE <<<<1, 2>>, <<1, 2>>>>

\* the tests of process_source that end it before any fetch
Skipped_minzoom(src) ==
  \/ src.type # "tms"
  \/ src.country_code # Some("CZ")
  \/ ~Contains(src.url, ".zby.cz/tiles_cuzk.php")
  \/ Contains(src.url, "{z}")
  \/ Contains(src.url, "{apikey}")

\* Image.open(BytesIO(response.text)) raises on a body that is no image; it is
\* called for a response with status 200 only
Raises(response) == response.status = Some(200) /\ ~IsImage(response.text[1][2])

\* (variant: the handler of test_zoom lets the error pass)
Caught_nothing(response) == FALSE

\* except Exception as e: every error of the decoding is handled in test_zoom
Caught(response) == TRUE

\* An exception that leaves test_zoom leaves process_source too: gather hands
\* it to start_processing, and asyncio.run cancels the tasks still pending,
\* whose "async with" blocks release the locks they hold
Propagate(t) ==
  LET gone == {x \in Tasks : x = t \/ pc[x] \notin {"done", "nojob"}} IN
  /\ pc' = [x \in Tasks |-> IF x = t THEN "raised"
                             ELSE IF x \in gone THEN "cancelled" ELSE pc[x]]
  /\ gpc' = [x \in Tasks |-> IF x \in gone THEN "none" ELSE gpc[x]]
  /\ url' = [x \in Tasks |-> IF x \in gone THEN NoURL ELSE url[x]]
  /\ lock' = [x \in Tasks |-> IF x \in gone THEN 0 ELSE lock[x]]
  /\ i' = [x \in Tasks |-> IF x \in gone THEN 0 ELSE i[x]]
  /\ ret' = [x \in Tasks |-> IF x \in gone THEN NoResult ELSE ret[x]]
  /\ succeeded' = [x \in Tasks |-> IF x \in gone THEN FALSE ELSE succeeded[x]]
  /\ locks' = [l \in DOMAIN locks |-> IF locks[l] \in gone THEN NoTask ELSE locks[l]]
  /\ domain_lock' = IF domain_lock \in gone THEN NoTask ELSE domain_lock
  /\ UNCHANGED <<response_cache, domain_locks, calls, delivered, faults>>

\* what test_zoom makes of the response: the image's hash, or None
TestZoom_minzoom(response) ==
  IF response.status = Some(200)
       /\ IsImage(response.text[1][2])
       /\ HashText(response.text[1][2]) \notin {"0000000000000000", "FFFFFFFFFFFFFFFF"}
    THEN Some(HashText(response.text[1][2]))
    ELSE None

\* (variant: the first image found stops the sweep when nothing was recorded yet)
StopCondition_first_image(prev, h) ==
  /\ h # None
  /\ \/ Len(prev) = 0
     \/ prev[Len(prev)] # None /\ prev[Len(prev)] # h

\* (variant: the current hash is compared with the last hash that is not None)
StopCondition_last_present(prev, h) ==
  /\ h # None
  /\ \E k \in 1..Len(prev) :
       /\ prev[k] # None /\ prev[k] # h
       /\ \A j \in (k + 1)..Len(prev) : prev[j] = None

\* len(previous_images) > 0 and previous_images[-1] is not None
\*   and not previous_images[-1] == image_hash    (within "image_hash is not None")
StopCondition(prev, h) ==
  /\ h # None
  /\ Len(prev) > 0
  /\ prev[Len(prev)] # None
  /\ prev[Len(prev)] # h

\* (variant: zoom 0 is kept)
Normalize_kept(mz) == mz

\* zoom 0 is equal to when no min_zoom level is set
Normalize(mz) == IF mz = Some(0) THEN None ELSE mz

\* (variant: the record is compared also when no min zoom was found)
ShouldWrite_any_change(found, src) == Normalize(found) # src.min_zoom

\* the record is written when a min zoom was found and differs from the record's
ShouldWrite(found, src) == found # None /\ Normalize(found) # src.min_zoom

\* (variant: the key is popped whatever the value)
Updated_popped(src, mz) == [src EXCEPT !.min_zoom = None]

\* source['properties']['min_zoom'] = min_zoom, or .pop('min_zoom', None)
Updated(src, mz) == [src EXCEPT !.min_zoom = mz]

\* (variant: the loop runs once more)
InRange_inclusive(z) == z \in 0..NumZooms

\* for zoom in range(20): the values the loop variable takes
InRange(z) == z \in 0..(NumZooms - 1)

\* the end of process_source: the check against the source, and the write
PostProcess(t, found) ==
  /\ min_zoom' = [min_zoom EXCEPT ![t] = IF found # None THEN Normalize(found) ELSE None]
  /\ IF ShouldWrite(found, source[t])
       THEN /\ files' = [files EXCEPT ![t] = Updated(source[t], Normalize(found))]
            /\ writes' = [writes EXCEPT ![t] = @ + 1]
       ELSE UNCHANGED <<files, writes>>
  /\ pc' = [pc EXCEPT ![t] = "done"]

\* the file is read and parsed; a source that is not skipped starts the
\* sweep: test_zoom(0) runs up to its asyncio.sleep
ReadSource_minzoom(t) ==
  /\ pc[t] = "start"
  /\ source' = [source EXCEPT ![t] = files[t]]
  /\ pc' = [pc EXCEPT ![t] = IF Skipped_minzoom(files[t]) THEN "done" ELSE "sleep"]
  /\ UNCHANGED <<script, server, fetchVars, files, writes, zoom, previous_images,
                 min_zoom, image_hash, fetched, got, reported>>

\* the sleep is over: response = await get_url(query_url, session, with_data=True, ...)
Fetch_minzoom(t) ==
  LET u == QueryUrl(source[t].url, Centroid_minzoom(source[t]), zoom[t], FALSE) IN
  /\ pc[t] = "sleep"
  /\ CallGetUrl(t, u)
  /\ fetched' = [fetched EXCEPT ![t] = Append(@, u)]
  /\ pc' = [pc EXCEPT ![t] = "await_get_url"]
  /\ UNCHANGED <<script, server, files, writes, source, zoom, previous_images,
                 min_zoom, image_hash, got, reported>>

\* get_url has returned: the rest of test_zoom, then the loop body; the loop
\* goes on to the next zoom's sleep, or ends and the source is post-processed
AfterFetch_minzoom(t) ==
  LET h == TestZoom_minzoom(ret[t])
      prev == previous_images[t]
  IN
  /\ pc[t] = "await_get_url"
  /\ gpc[t] = "returned"
  /\ IF Raises(ret[t]) /\ ~Caught(ret[t])
       THEN /\ Propagate(t)
            /\ UNCHANGED <<files, writes, zoom, previous_images, min_zoom, image_hash>>
       ELSE /\ Forget(t)
            /\ image_hash' = [image_hash EXCEPT ![t] = h]
            /\ IF StopCondition(prev, h)
                 THEN /\ PostProcess(t, Some(Len(prev)))
                      /\ UNCHANGED <<previous_images, zoom>>
                 ELSE /\ previous_images' = [previous_images EXCEPT ![t] = Append(prev, h)]
                      /\ IF InRange(zoom[t] + 1)
                           THEN /\ zoom' = [zoom EXCEPT ![t] = @ + 1]
                                /\ pc' = [pc EXCEPT ![t] = "sleep"]
                                /\ UNCHANGED <<files, writes, min_zoom>>
                           ELSE /\ PostProcess(t, None)
                                /\ UNCHANGED zoom
            /\ UNCHANGED <<response_cache, domain_locks, locks, domain_lock,
                           calls, delivered, faults>>
  /\ UNCHANGED <<script, server, source, fetched, got, reported>>

process_source_minzoom(t) ==
  \/ ReadSource_minzoom(t)
  \/ Fetch_minzoom(t)
  \/ AfterFetch_minzoom(t)

\* --- the runs checked
\* what a service can hold for a tile: a tile image, a blank tile, an error
\* page with status 200 or 404, or nothing (the service is down)
TileH == [status |-> 200, body |-> "img256_H"]
TileD == [status |-> 200, body |-> "img256_D"]
TileBlank == [status |-> 200, body |-> "img256_zero"]
Page200 == [status |-> 200, body |-> "html"]
Page404 == [status |-> 404, body |-> "html"]
Down == [status |-> 0, body |-> ""]

\* the zooms whose tile is chosen freely; all higher zooms hold the same tile
PrefixLen == 3

\* the service behind a template: the tile of each zoom's query url
World(tpl, c, tile) == [u \in {QueryUrl(tpl, c, z, FALSE) : z \in 0..(NumZooms - 1)} |->
                          tile[u.zoom]]

Traces ==
  { [z \in 0..(NumZooms - 1) |-> IF z < PrefixLen THEN head[z] ELSE tail] :
      head \in [0..(PrefixLen - 1) -> {TileH, TileD, TileBlank, Page404}],
      tail \in {TileH, TileD, Page200, Down} }

\* a service whose tiles change from zoom to zoom, and that is down for zoom 1
Alternating == [z \in 0..(NumZooms - 1) |->
                  IF z = 1 THEN Down ELSE IF z % 2 = 0 THEN TileH ELSE TileD]

TplZby == Template(<<"ags.zby.cz">>, "/tiles_cuzk.php?zoom={zoom}&x={x}&y={y}",
                   {".zby.cz/tiles_cuzk.php", "{y}"})
TplZbyTms == Template(<<"osm-a.zby.cz", "osm-b.zby.cz">>,
                      "/tiles_cuzk.php/{zoom}/{x}/{-y}.png",
                      {".zby.cz/tiles_cuzk.php", "{switch:", "{-y}", ".ext"})
TplOther == Template(<<"tiles.example">>, "/{zoom}/{x}/{y}.png", {"{y}", ".ext"})
TplZ == Template(<<"ags.zby.cz">>, "/tiles_cuzk.php/{z}/{x}/{y}.png",
                 {".zby.cz/tiles_cuzk.php", "{z}", "{y}", ".ext"})
TplApikey == Template(<<"ags.zby.cz">>, "/tiles_cuzk.php/{zoom}/{x}/{y}.png?key={apikey}",
                      {".zby.cz/tiles_cuzk.php", "{apikey}", "{y}", ".ext"})

\* records the sweep runs on, with and without a min_zoom of their own
SweepRecords ==
  { Record("tms", TplZby, Some("CZ"), mz, Some(19), None) : mz \in {None, Some(1), Some(3)} }

\* records process_source skips
SkippedRecords ==
  { Record("wms", TplZby, Some("CZ"), None, None, None),
    Record("tms", TplZby, None, Some(3), None, None),
    Record("tms", TplZby, Some("DE"), None, None, None),
    Record("tms", TplOther, Some("CZ"), None, None, None),
    Record("tms", TplZ, Some("CZ"), Some(3), None, None),
    Record("tms", TplApikey, Some("CZ"), None, None, None) }

\* records of a run with several sources on one service
SharedRecords ==
  { Record("tms", TplZby, Some("CZ"), Some(3), Some(19), None),
    Record("tms", TplZby, Some("CZ"), None, Some(19), Some(<<<<1, 4>>, <<3, 8>>>>)) }

\* A run of the minzoom sync: one source file whose record is swept, on a
\* service with any of the tile traces and no transient failures; or one
\* source file whose record is skipped; or a file per task, all on one
\* service whose tiles alternate, with no transient failures
InitMinzoom ==
  /\ script = "minzoom"
  /\ \/ /\ \E rec \in SweepRecords :
             /\ files = [t \in {1} |-> rec]
             /\ \E tr \in Traces : server = World(rec.url, Centroid_minzoom(rec), tr)
          /\ faults = MaxFaults
     \/ /\ \E rec \in SkippedRecords :
             /\ files = [t \in {1} |-> rec]
             /\ server = World(rec.url, Centroid_minzoom(rec), Alternating)
          /\ faults = 0
     \/ /\ files \in [Tasks -> SharedRecords]
        /\ server = [u \in UNION { DOMAIN World(r.url, Centroid_minzoom(r), Alternating) :
                                     r \in SharedRecords } |-> Alternating[u.zoom]]
        /\ faults = MaxFaults
  /\ pc = [t \in Tasks |-> IF t \in DOMAIN files THEN "start" ELSE "nojob"]
  /\ FetchInit
  /\ ProbeInit

NextMinzoom == \E t \in Tasks : process_source_minzoom(t) \/ Fetch(t)

SpecMinzoom == InitMinzoom /\ [][NextMinzoom]_vars

\* --- the tile addresser alone
TplZbyInv == Template(<<"ags.zby.cz">>, "/tiles_cuzk.php/{zoom}/{x}/{!y}.png",
                      {".zby.cz/tiles_cuzk.php", "{!y}", ".ext"})

\* representative points: the top row, rows in between, a row near the bottom
Points == { <<<<1, 2>>, <<0, 1>>>>, <<<<1, 4>>, <<5, 16>>>>, <<<<1, 2>>, <<1, 2>>>>,
            <<<<3, 4>>, <<1023, 1024>>>> }

\* records with each of the three row placeholders
AddressRecords ==
  { Record("tms", tpl, Some("CZ"), None, Some(19), Some(c)) :
      tpl \in {TplZby, TplZbyTms, TplZbyInv}, c \in Points }

\* test_zoom(zoom) of the minzoom sync, called for any zoom of range(20) on
\* its own: the query url is built and handed to get_url
InitAddress ==
  /\ script = "minzoom"
  /\ server = <<>>
  /\ faults = 0
  /\ \E rec \in AddressRecords : files = [t \in {1} |-> rec]
  /\ pc = [t \in Tasks |-> IF t \in DOMAIN files THEN "sleep" ELSE "nojob"]
  /\ FetchInit
  /\ source = [t \in Tasks |-> IF t \in DOMAIN files THEN files[t] ELSE NoRecord]
  /\ \E z \in 0..(NumZooms - 1) :
       /\ zoom = [t \in Tasks |-> IF t \in DOMAIN files THEN z ELSE 0]
       /\ previous_images = [t \in Tasks |-> IF t \in DOMAIN files
                                               THEN [k \in 1..z |-> None] ELSE <<>>]
  /\ min_zoom = [t \in Tasks |-> None]
  /\ image_hash = [t \in Tasks |-> None]
  /\ fetched = [t \in Tasks |-> <<>>]
  /\ got = [t \in Tasks |-> <<>>]
  /\ writes = [t \in DOMAIN files |-> 0]
  /\ reported = {}

NextAddress == \E t \in Tasks : Fetch_minzoom(t)

SpecAddress == InitAddress /\ [][NextAddress]_vars

\* --- the post-processing alone
\* records with and without a min_zoom of their own, 0 included
PostRecords ==
  { Record("tms", TplZby, Some("CZ"), mz, Some(19), None) :
      mz \in {None, Some(0), Some(1), Some(3)} }

\* process_source where its loop has ended, for every value min_zoom can hold
\* there (None or a zoom of range(20)) and every record; the post-processing
\* reads no other variable of the loop
InitPost ==
  /\ script = "minzoom"
  /\ server = <<>>
  /\ faults = 0
  /\ \E rec \in PostRecords : files = [t \in {1} |-> rec]
  /\ pc = [t \in Tasks |-> IF t \in DOMAIN files THEN "loop_end" ELSE "nojob"]
  /\ FetchInit
  /\ source = [t \in Tasks |-> IF t \in DOMAIN files THEN files[t] ELSE NoRecord]
  /\ zoom = [t \in Tasks |-> 0]
  /\ previous_images = [t \in Tasks |-> <<>>]
  /\ \E found \in {None} \cup {Some(z) : z \in 0..(NumZooms - 1)} :
       min_zoom = [t \in Tasks |-> IF t \in DOMAIN files THEN found ELSE None]
  /\ image_hash = [t \in Tasks |-> None]
  /\ fetched = [t \in Tasks |-> <<>>]
  /\ got = [t \in Tasks |-> <<>>]
  /\ writes = [t \in DOMAIN files |-> 0]
  /\ reported = {}

\* lines 185..209 of process_source
AfterLoop_minzoom(t) ==
  /\ pc[t] = "loop_end"
  /\ PostProcess(t, min_zoom[t])
  /\ UNCHANGED <<script, server, fetchVars, source, zoom, previous_images,
                 image_hash, fetched, got, reported>>

NextPost == \E t \in Tasks : AfterLoop_minzoom(t)

SpecPost == InitPost /\ [][NextPost]_vars

\* --------------------------------------------------- highres_tile_checker.py
\* the representative point of the geometry, or Point(6.1, 49.6)
Centroid_highres(src) ==
  IF src.geometry # None THEN src.geometry[1] ELSE <<<<1861, 3600>>, <<3409, 10000>>>>

\* (variant: the test for 'header' in the url is missing)
Skipped_highres_no_header(src) ==
  \/ src.type # "tms"
  \/ Contains(src.url, "{z}")
  \/ Contains(src.url, "{apikey}")

\* the tests of process_source that end it before any fetch
Skipped_highres(src) ==
  \/ src.type # "tms"
  \/ Contains(src.url, "header")
  \/ Contains(src.url, "{z}")
  \/ Contains(src.url, "{apikey}")

\* int(x) of a half: truncation towards zero
IntHalf(n) == IF n >= 0 THEN n \div 2 ELSE -((-n) \div 2)

\* zoom = int(0.5 * (min_zoom + max_zoom)), min_zoom 0 and max_zoom 22 by default
ProbeZoom(src) ==
  IntHalf((IF src.min_zoom # None THEN src.min_zoom[1] ELSE 0)
          + (IF src.max_zoom # None THEN src.max_zoom[1] ELSE 22))

\* (variant: the size of the image is not looked at)
TestZoom_highres_any_size(response, highres) ==
  response.status = Some(200) /\ IsImage(response.text[1][2])

\* what test_zoom makes of the response: is it a tile of the expected size
TestZoom_highres(response, highres) ==
  /\ response.status = Some(200)
  /\ IsImage(response.text[1][2])
  /\ ImageSize(response.text[1][2]) = (IF highres THEN 512 ELSE 256)

\* The file is read and parsed; a source that is not skipped starts
\* test_zoom(zoom, highres=False), which runs up to its await in get_url
ReadSource_highres(t) ==
  LET src == files[t]
      u == QueryUrl(src.url, Centroid_highres(src), ProbeZoom(src), FALSE)
  IN
  /\ pc[t] = "start"
  /\ source' = [source EXCEPT ![t] = src]
  /\ IF Skipped_highres(src)
       THEN /\ pc' = [pc EXCEPT ![t] = "done"]
            /\ UNCHANGED <<fetchVars, zoom, fetched>>
       ELSE /\ zoom' = [zoom EXCEPT ![t] = ProbeZoom(src)]
            /\ CallGetUrl(t, u)
            /\ fetched' = [fetched EXCEPT ![t] = Append(@, u)]
            /\ pc' = [pc EXCEPT ![t] = "await_normal"]
  /\ UNCHANGED <<script, server, files, writes, previous_images, min_zoom,
                 image_hash, got, reported>>

\* The normal tile's get_url has returned: test_zoom answers, and only if it
\* answers True test_zoom(zoom, highres=True) is called
AfterNormal_highres(t) ==
  LET u == QueryUrl(source[t].url, Centroid_highres(source[t]), zoom[t], TRUE) IN
  /\ pc[t] = "await_normal"
  /\ gpc[t] = "returned"
  /\ got' = [got EXCEPT ![t] = Append(@, ret[t])]
  /\ IF Raises(ret[t]) /\ ~Caught(ret[t])
       THEN /\ Propagate(t)
            /\ UNCHANGED fetched
     ELSE IF TestZoom_highres(ret[t], FALSE)
       THEN /\ CallGetUrl(t, u)
            /\ fetched' = [fetched EXCEPT ![t] = Append(@, u)]
            /\ pc' = [pc EXCEPT ![t] = "await_retina"]
       ELSE /\ Forget(t)
            /\ pc' = [pc EXCEPT ![t] = "done"]
            /\ UNCHANGED <<response_cache, domain_locks, locks, domain_lock, calls,
                           delivered, faults, fetched>>
  /\ UNCHANGED <<script, server, files, writes, source, zoom, previous_images,
                 min_zoom, image_hash, reported>>

\* The @2x tile's get_url has returned: logging.info("Supports @2x: ...") if
\* test_zoom answers True
AfterRetina_highres(t) ==
  /\ pc[t] = "await_retina"
  /\ gpc[t] = "returned"
  /\ got' = [got EXCEPT ![t] = Append(@, ret[t])]
  /\ IF Raises(ret[t]) /\ ~Caught(ret[t])
       THEN /\ Propagate(t)
            /\ UNCHANGED reported
       ELSE /\ reported' = IF TestZoom_highres(ret[t], TRUE) THEN reported \cup {t}
                                                              ELSE reported
            /\ Forget(t)
            /\ pc' = [pc EXCEPT ![t] = "done"]
            /\ UNCHANGED <<response_cache, domain_locks, locks, domain_lock,
                           calls, delivered, faults>>
  /\ UNCHANGED <<script, server, files, writes, source, zoom,
                 previous_images, min_zoom, image_hash, fetched>>

process_source_highres(t) ==
  \/ ReadSource_highres(t)
  \/ AfterNormal_highres(t)
  \/ AfterRetina_highres(t)

\* --- the runs checked
Tile512 == [status |-> 200, body |-> "img512_H"]

\* what a service holds for a normal tile and for its @2x variant
Services ==
  { <<TileH, Tile512>>, <<TileH, TileH>>, <<TileH, Page404>>, <<TileH, Page200>>,
    <<Tile512, Tile512>>, <<Page404, Tile512>> }

TplHeader == Template(<<"tiles.example">>, "/{zoom}/{x}/{y}.png?header=1",
                      {"header", "{y}", ".ext"})
TplNoExt == Template(<<"tiles.example">>, "/wmts/{zoom}/{x}/{!y}", {"{!y}"})

HighresRecords ==
  { Record("tms", TplOther, None, None, None, None),
    Record("tms", TplNoExt, Some("CZ"), Some(3), Some(8), Some(<<<<1, 4>>, <<3, 8>>>>)),
    Record("tms", TplHeader, None, None, None, None),
    Record("wms", TplOther, None, None, None, None) }

\* the urls a record's probe can ask for
ProbeUrls(r) ==
  { QueryUrl(r.url, Centroid_highres(r), ProbeZoom(r), hr) : hr \in BOOLEAN }

\* A run of the highres checker: a file per task, on services that all hold
\* the same kind of normal and @2x tile, with transient failures
InitHighres ==
  /\ script = "highres"
  /\ files \in [Tasks -> HighresRecords]
  /\ \E sv \in Services :
       server = [u \in UNION { ProbeUrls(r) : r \in HighresRecords } |->
                   IF u.retina = "" THEN sv[1] ELSE sv[2]]
  /\ faults = 0
  /\ pc = [t \in Tasks |-> "start"]
  /\ FetchInit
  /\ ProbeInit

NextHighres == \E t \in Tasks : process_source_highres(t) \/ Fetch(t)

SpecHighres == InitHighres /\ [][NextHighres]_vars

\* ------------------------------------------------ a run of either script
\* asyncio.run(start_processing(sources_directory)) of the script started
InitRun == InitMinzoom \/ InitHighres

process_source(t) ==
  \/ script = "minzoom" /\ process_source_minzoom(t)
  \/ script = "highres" /\ process_source_highres(t)

\* await asyncio.gather(*jobs): the tasks run interleaved at their awaits
start_processing == \E t \in Tasks : process_source(t) \/ Fetch(t)

SpecRun == InitRun /\ [][start_processing]_vars

\* The event loop runs every task that can run, and every transport attempt
\* ends: with a response, an error, or the session's timeout
FairRun == SpecRun /\ \A t \in Tasks : WF_vars(process_source(t) \/ Fetch(t))

\* ---------------------------------------------------------------- properties
InFlight(t) == gpc[t] = "request"
InCall(t) == gpc[t] # "none"
IsFailure(r) == r.exception # None /\ r.status = None /\ r.text = None
IsResponse(r) == r.exception = None /\ r.status # None

\* C1: at most one transport request is in flight for any host (netloc) at
\* any time, whichever tasks and urls issued the calls.
PerHostMutualExclusion ==
  \A t1, t2 \in Tasks :
    (t1 # t2 /\ InFlight(t1) /\ InFlight(t2)) => url[t1].netloc # url[t2].netloc

\* a request is in flight while another task's call for a different url of
\* the same host waits for the host's lock
PerHostContention ==
  \E t1, t2 \in Tasks :
    /\ InFlight(t1) /\ gpc[t2] = "lock"
    /\ url[t1].netloc = url[t2].netloc /\ url[t1] # url[t2]

\* C2: the transport is invoked at most once per url over the whole run.
AtMostOneRequestPerUrl == \A u \in DOMAIN calls : calls[u] <= 1

\* C3: once an attempt of a call has succeeded the call attempts no more, and
\* the result it returns is a success; a failure is returned only when every
\* attempt failed.
RetryStopsOnSuccess ==
  \A t \in Tasks :
    /\ InFlight(t) => ~succeeded[t]
    /\ (gpc[t] = "returned" /\ succeeded[t]) => IsResponse(ret[t])

\* a call that finds its url cached: it takes the host lock and returns
CachedReturn(t) ==
  gpc[t] = "lock" /\ gpc'[t] # "lock" /\ url[t] \in DOMAIN response_cache

\* C4: the transport attempts per url never exceed the retry budget, and a
\* call that finds its url cached, success or failure, returns the cached
\* result without a transport call.
MemoizedWithinBudget ==
  /\ [](\A u \in DOMAIN calls : calls[u] <= Budget)
  /\ [][\A t \in Tasks : CachedReturn(t) =>
          /\ gpc'[t] = "returned"
          /\ ret'[t] = response_cache[url[t]]
          /\ UNCHANGED <<calls, response_cache>>]_vars

\* a later call has returned a cached failure of a url whose budget is used up
CachedFailureReturned ==
  \E t \in Tasks :
    /\ gpc[t] = "returned" /\ url[t].netloc # "" /\ i[t] = 0
    /\ IsFailure(ret[t])
    /\ Calls(url[t]) = Budget

\* C5: once a call for a url has returned, the url's cache entry stays what
\* was returned, and every call for the url returns that same result.
ResultStable ==
  \A d \in delivered :
    /\ d[1].netloc # "" => (d[1] \in DOMAIN response_cache /\ response_cache[d[1]] = d[2])
    /\ \A e \in delivered : e[1] = d[1] => e[2] = d[2]

\* two tasks hold the result of the same url, one of them from the cache
SameResultTwice ==
  \E t1, t2 \in Tasks :
    /\ t1 # t2 /\ gpc[t1] = "returned" /\ gpc[t2] = "returned"
    /\ url[t1] = url[t2] /\ url[t1].netloc # ""
    /\ i[t1] = Budget /\ i[t2] = 0
    /\ ret[t1] = ret[t2]

\* a call with a url that has no netloc begins
NoHostCall(t) == gpc[t] = "none" /\ gpc'[t] # "none" /\ url'[t].netloc = ""

\* C6: a call for a url without netloc returns an exception result at once
\* and touches no shared state: no transport call, no cache entry, no host
\* lock created, neither the creation lock nor a host lock acquired.
NoHostLeavesNoTrace ==
  /\ [](/\ \A u \in DOMAIN calls \cup DOMAIN response_cache : u.netloc # ""
        /\ "" \notin DOMAIN domain_locks
        /\ \A t \in Tasks : (InCall(t) /\ url[t].netloc = "") =>
             gpc[t] = "returned" /\ IsFailure(ret[t]))
  /\ [][\A t \in Tasks : NoHostCall(t) =>
          /\ gpc'[t] = "returned"
          /\ IsFailure(ret'[t])
          /\ UNCHANGED <<response_cache, domain_locks, locks, domain_lock, calls>>]_vars

\* a call without netloc has returned while another call has a request in flight
NoHostReturned ==
  \E t1, t2 \in Tasks :
    /\ gpc[t1] = "returned" /\ url[t1].netloc = "" /\ IsFailure(ret[t1])
    /\ InFlight(t2)

\* --- the minzoom sweep
\* the task's source was read and is swept
Sweeping(t) == pc[t] \in {"sleep", "await_get_url", "done"} /\ ~Skipped_minzoom(source[t])
SweepDone(t) == pc[t] = "done" /\ ~Skipped_minzoom(source[t])
\* the loop was left by break: the stop condition fired at zoom len(previous_images)
Stopped(t) == SweepDone(t) /\ Len(previous_images[t]) < NumZooms

\* the hash h is present and differs from the most recent present hash of tr
DiffersFromLastPresent(tr, h) ==
  /\ h # None
  /\ \E k \in 1..Len(tr) :
       /\ tr[k] # None /\ tr[k] # h
       /\ \A j \in (k + 1)..Len(tr) : tr[j] = None

\* the hash h is present and differs from the hash of the zoom just before,
\* which is present
DiffersFromPrevious(tr, h) ==
  h # None /\ Len(tr) >= 1 /\ tr[Len(tr)] # None /\ tr[Len(tr)] # h

\* C7: the sweep stops at the smallest zoom whose hash is present and differs
\* from the most recent present hash of a lower zoom, absent entries skipped,
\* and reports that zoom.
StopsAtFirstChangeSkippingAbsent ==
  \A t \in Tasks : Sweeping(t) =>
    /\ \A n \in 1..Len(previous_images[t]) :
         ~DiffersFromLastPresent(SubSeq(previous_images[t], 1, n - 1), previous_images[t][n])
    /\ Stopped(t) =>
         /\ DiffersFromLastPresent(previous_images[t], image_hash[t])
         /\ min_zoom[t] = Some(Len(previous_images[t]))
    /\ (SweepDone(t) /\ ~Stopped(t)) => min_zoom[t] = None

\* C7 (amended): the sweep stops at the smallest zoom z >= 1 whose hash is
\* present and differs from the hash of zoom z - 1, which must be present
\* too, and reports z; a sweep that finds no such zoom reports none.
StopsAtFirstAdjacentChange ==
  \A t \in Tasks : Sweeping(t) =>
    /\ \A n \in 1..Len(previous_images[t]) :
         ~DiffersFromPrevious(SubSeq(previous_images[t], 1, n - 1), previous_images[t][n])
    /\ Stopped(t) =>
         /\ DiffersFromPrevious(previous_images[t], image_hash[t])
         /\ min_zoom[t] = Some(Len(previous_images[t]))
    /\ (SweepDone(t) /\ ~Stopped(t)) => min_zoom[t] = None

\* the trace [absent, absent, H, D] has stopped the sweep at zoom 3
StoppedAfterAbsent ==
  \E t \in Tasks :
    /\ Stopped(t) /\ Len(previous_images[t]) = 3
    /\ previous_images[t][1] = None /\ previous_images[t][2] = None
    /\ min_zoom[t] = Some(3)

\* the value the sweep ends with: the zoom it stopped at, 0 taken as none
FinalValue(t) == IF Stopped(t) THEN Normalize(Some(Len(previous_images[t]))) ELSE None

\* C8: whenever the final value differs from the record's min_zoom, the
\* record is persisted with min_zoom set to the final value.
WrittenOnEveryChange ==
  \A t \in Tasks : (SweepDone(t) /\ FinalValue(t) # source[t].min_zoom) =>
    writes[t] = 1 /\ files[t] = [source[t] EXCEPT !.min_zoom = FinalValue(t)]

\* C8 (amended): whenever the sweep determined a minimum zoom and the final
\* value differs from the record's min_zoom, the record is persisted with
\* min_zoom set to the final value; when the sweep determined none, the
\* record is left as it was read.
WrittenOnEveryFoundChange ==
  \A t \in Tasks : SweepDone(t) =>
    /\ (Stopped(t) /\ FinalValue(t) # source[t].min_zoom) =>
         writes[t] = 1 /\ files[t] = [source[t] EXCEPT !.min_zoom = FinalValue(t)]
    /\ ~Stopped(t) => writes[t] = 0 /\ files[t] = source[t]

\* a sweep has stopped at zoom 3 on a record with min_zoom 1, and the file holds 3
ChangedValueWritten ==
  \E t \in Tasks :
    /\ Stopped(t) /\ source[t].min_zoom = Some(1)
    /\ files[t].min_zoom = Some(3) /\ writes[t] = 1

\* C9: a file is written only in the step in which its source's sweep stops
\* at a zoom that differs from the record's min_zoom; the write changes that
\* record's min_zoom and nothing else, in no other file.
WriteGuarded ==
  [][\A t \in DOMAIN files : (files'[t] # files[t] \/ writes'[t] # writes[t]) =>
       LET prev == previous_images[t]
           h == image_hash'[t]
       IN /\ pc[t] = "await_get_url" /\ pc'[t] = "done"
          /\ h # None /\ Len(prev) >= 1 /\ Len(prev) < NumZooms
          /\ prev[Len(prev)] # None /\ prev[Len(prev)] # h
          /\ Some(Len(prev)) # files[t].min_zoom
          /\ files'[t] = [files[t] EXCEPT !.min_zoom = Some(Len(prev))]
          /\ writes'[t] = writes[t] + 1
          /\ \A o \in DOMAIN files \ {t} : files'[o] = files[o] /\ writes'[o] = writes[o]]_vars

\* of two swept sources one was written and the other, its value unchanged, was not
OneWrittenOneKept ==
  \E t1, t2 \in Tasks :
    /\ Stopped(t1) /\ writes[t1] = 1 /\ files[t1] # source[t1]
    /\ Stopped(t2) /\ writes[t2] = 0 /\ files[t2] = source[t2]

\* --- the highres probe
\* the result is a status 200 with a body that decodes to a square image of the side
TileOfSide(r, side) ==
  /\ r.exception = None /\ r.status = Some(200) /\ r.text # None
  /\ r.text[1][2] \in {"img256_H", "img256_D", "img256_zero", "img256_ones", "img512_H"}
  /\ (r.text[1][2] = "img512_H") = (side = 512)

Probed(t) == pc[t] # "start" /\ ~Skipped_highres(source[t])

\* the zoom halfway between the record's min_zoom (default 0) and max_zoom (default 22)
MidZoom(r) ==
  ((IF r.min_zoom = None THEN 0 ELSE r.min_zoom[1])
   + (IF r.max_zoom = None THEN 22 ELSE r.max_zoom[1])) \div 2

\* C10: a source is reported as supporting @2x exactly when its normal fetch
\* at the middle zoom returned a 200 with a 256x256 image and its @2x fetch at
\* that zoom a 200 with a 512x512 image; the probe makes at most these two
\* get_url calls, the @2x one only after the normal one succeeded, and no
\* file is ever written.
HighresVerdict ==
  /\ \A t \in Tasks : writes[t] = 0 /\ (pc[t] # "start" => files[t] = source[t])
  /\ \A t \in reported : pc[t] = "done" /\ Probed(t)
  /\ \A t \in Tasks : Probed(t) =>
       /\ Len(fetched[t]) \in 1..2
       /\ fetched[t][1].zoom = MidZoom(source[t]) /\ fetched[t][1].retina = ""
       /\ Len(fetched[t]) = 2 =>
            /\ Len(got[t]) >= 1 /\ TileOfSide(got[t][1], 256)
            /\ fetched[t][2] = [fetched[t][1] EXCEPT !.retina = fetched[t][2].retina]
            /\ fetched[t][2].retina # ""
       /\ pc[t] = "done" =>
            (t \in reported <=>
               /\ Len(got[t]) = 2
               /\ TileOfSide(got[t][1], 256)
               /\ TileOfSide(got[t][2], 512))

\* two sources are done: one is reported, the other got a normal tile but no 512 tile
ReportedAndNot ==
  \E t1, t2 \in Tasks :
    /\ pc[t1] = "done" /\ t1 \in reported
    /\ pc[t2] = "done" /\ t2 \notin reported /\ Len(got[t2]) = 2

\* --- both probes
\* a source neither probe supports: not tms, a {z} or {apikey} template, for
\* the highres checker a url with 'header', for the minzoom sync a source
\* outside the country and provider filter
Unsupported(rec) ==
  \/ rec.type # "tms"
  \/ "{z}" \in rec.url.marks
  \/ "{apikey}" \in rec.url.marks
  \/ script = "highres" /\ "header" \in rec.url.marks
  \/ script = "minzoom" /\ (rec.country_code # Some("CZ")
                             \/ ".zby.cz/tiles_cuzk.php" \notin rec.url.marks)

\* the urls the probes of the supported sources have asked for
AskedBySupported ==
  UNION { {fetched[t][k] : k \in 1..Len(fetched[t])} :
            t \in {x \in DOMAIN files : ~Unsupported(files[x])} }

\* C11: the task of an unsupported source never calls get_url, reports no
\* verdict and writes no file; every cache entry, transport call and host
\* lock of the run belongs to a url asked for by a supported source.
SkippedBeforeAnyFetch ==
  /\ \A t \in DOMAIN files : Unsupported(files[t]) =>
       /\ pc[t] \in {"start", "done"}
       /\ gpc[t] = "none" /\ fetched[t] = <<>> /\ got[t] = <<>>
       /\ previous_images[t] = <<>> /\ min_zoom[t] = None
       /\ t \notin reported
       /\ writes[t] = 0 /\ (pc[t] = "done" => files[t] = source[t])
  /\ \A u \in DOMAIN response_cache \cup DOMAIN calls : u \in AskedBySupported
  /\ \A h \in DOMAIN domain_locks : \E u \in AskedBySupported : u.netloc = h

\* an unsupported source is done with, beside a supported one whose tile is cached
SkippedBesideProbed ==
  \E t1, t2 \in DOMAIN files :
    /\ Unsupported(files[t1]) /\ pc[t1] = "done"
    /\ ~Unsupported(files[t2]) /\ fetched[t2] # <<>>
    /\ fetched[t2][1] \in DOMAIN response_cache

\* the task takes the result of a probe step from get_url
Receives(t) ==
  /\ pc[t] \in {"await_get_url", "await_normal", "await_retina"}
  /\ gpc[t] = "returned"
  /\ pc'[t] # pc[t]

\* a transport failure, or a status 200 whose body does not decode to an image
Failing(r) ==
  \/ IsFailure(r)
  \/ r.status = Some(200) /\ r.text # None /\ r.text[1][2] = "html"

\* C12: a transport failure or an undecodable body in a source's probe step
\* gives that step an absent (minzoom) or negative (highres) result; the
\* source's probe goes on with its next step, no other task is touched, and
\* no task ever ends with an exception or is cancelled.
FailureIsolated ==
  /\ [](\A t \in Tasks : pc[t] \notin {"raised", "cancelled"})
  /\ [][\A t \in Tasks : (Receives(t) /\ Failing(ret[t])) =>
          /\ script = "minzoom" =>
               /\ image_hash'[t] = None
               /\ previous_images'[t] = Append(previous_images[t], None)
               /\ IF zoom[t] < 19
                    THEN pc'[t] = "sleep" /\ zoom'[t] = zoom[t] + 1
                    ELSE pc'[t] = "done"
               /\ UNCHANGED <<files, writes>>
          /\ script = "highres" => pc'[t] = "done" /\ UNCHANGED reported
          /\ \A o \in Tasks \ {t} :
               /\ pc'[o] = pc[o] /\ gpc'[o] = gpc[o] /\ url'[o] = url[o]
               /\ ret'[o] = ret[o] /\ zoom'[o] = zoom[o]
               /\ previous_images'[o] = previous_images[o]
          /\ UNCHANGED <<response_cache, domain_locks, locks, domain_lock>>]_vars

\* two sources are done; the probe of one met a transport failure at a step
\* and went on to fetch the next zoom
FailedStepBothDone ==
  \E t1, t2 \in Tasks :
    /\ t1 # t2 /\ pc[t1] = "done" /\ pc[t2] = "done"
    /\ \E k \in 1..(Len(fetched[t1]) - 1) :
         /\ fetched[t1][k] \in DOMAIN response_cache
         /\ IsFailure(response_cache[fetched[t1][k]])
         /\ previous_images[t1][k] = None

\* --- the registry of host locks
\* C13: at most one lock is ever created per host: every lock created is
\* registered under exactly one host, a registered host keeps its lock for
\* good, and every call holds the lock registered for its url's host.
OneLockPerHost ==
  /\ [](/\ Len(locks) = Cardinality(DOMAIN domain_locks)
        /\ \A h \in DOMAIN domain_locks : domain_locks[h] \in 1..Len(locks)
        /\ \A h1, h2 \in DOMAIN domain_locks :
             domain_locks[h1] = domain_locks[h2] => h1 = h2
        /\ \A t \in Tasks : lock[t] # 0 =>
             /\ url[t].netloc \in DOMAIN domain_locks
             /\ lock[t] = domain_locks[url[t].netloc])
  /\ [][/\ Len(locks') >= Len(locks)
        /\ \A h \in DOMAIN domain_locks :
             h \in DOMAIN domain_locks' /\ domain_locks'[h] = domain_locks[h]]_vars

\* the only lock created is held by one call while a second call for the
\* same host has looked it up and waits for it
SameLockLookedUpTwice ==
  \E t1, t2 \in Tasks :
    /\ t1 # t2 /\ Len(locks) = 1 /\ DOMAIN domain_locks = {url[t1].netloc}
    /\ lock[t1] = 1 /\ lock[t2] = 1
    /\ locks[1] = t1 /\ gpc[t2] = "lock"

\* --- the shape of results
\* the result is a response, or it is a failure, and not both
OneShape(r) == (IsResponse(r) /\ ~IsFailure(r)) \/ (IsFailure(r) /\ ~IsResponse(r))

\* C14: every result in the cache and every result get_url returns is either
\* a response (status set, exception None) or a failure (exception set,
\* status and text None), whatever the attempt ended in and whichever of
\* with_text and with_data the caller asked for.
ResultShape ==
  /\ \A u \in DOMAIN response_cache : OneShape(response_cache[u])
  /\ \A d \in delivered : OneShape(d[2])
  /\ \A t \in Tasks : gpc[t] = "returned" => OneShape(ret[t])
  /\ \A t \in Tasks : InFlight(t) =>
       \A out \in Outcomes(url[t]), with_text, with_data \in BOOLEAN :
         OneShape(StoreResult(url[t], with_text, with_data, out))

\* the cache holds a response and a failure, and a call has returned each
BothShapesReturned ==
  \E t1, t2 \in Tasks :
    /\ gpc[t1] = "returned" /\ IsResponse(ret[t1]) /\ response_cache[url[t1]] = ret[t1]
    /\ gpc[t2] = "returned" /\ IsFailure(ret[t2]) /\ url[t2].netloc # ""
    /\ response_cache[url[t2]] = ret[t2]

\* --- the post-processing of the minzoom sync
\* C15: a record the post-processing persists never carries min_zoom = 0; a
\* minimum zoom of 0 is taken as none, so that a record that had a min_zoom
\* is persisted without the field and a record that had none is not written.
ZeroNeverPersisted ==
  /\ [](\A t \in DOMAIN files : writes[t] > 0 => files[t].min_zoom # Some(0))
  /\ [][\A t \in DOMAIN files : (pc[t] = "loop_end" /\ min_zoom[t] = Some(0)) =>
          /\ min_zoom'[t] = None
          /\ files'[t] = [files[t] EXCEPT !.min_zoom = None]
          /\ writes'[t] = writes[t] + (IF files[t].min_zoom # None THEN 1 ELSE 0)]_vars

\* a record with min_zoom 3 was persisted without the field: the value was 0
ZeroPersistedAsAbsent ==
  \E t \in DOMAIN files :
    /\ pc[t] = "done" /\ writes[t] = 1
    /\ source[t].min_zoom = Some(3) /\ files[t].min_zoom = None

\* --- the tile addresser
\* the row of the tile the source's point falls in at the zoom
RowOf(src, z) == Tile(Centroid_minzoom(src), z).y

\* C16: for every zoom of 0..19 and tile row, {-y} is filled with
\* 2^zoom - 1 - row, which is a row of 0..2^zoom - 1 again and flips back to
\* the row, and {!y} with 2^(zoom - 1) - 1 - row; zoom 5, row 10 give 21 and 5.
RowSubstitution ==
  \A t \in DOMAIN files : fetched[t] # <<>> =>
    LET u == fetched[t][1]
        z == u.zoom
        row == RowOf(source[t], z)
        marks == source[t].url.marks
    IN /\ z = zoom[t] /\ row \in 0..(2 ^ z - 1)
       /\ "{-y}" \in marks =>
            /\ u.y = <<2 ^ z - 1 - row, 1>>
            /\ u.y[1] \in 0..(2 ^ z - 1)
            /\ RowText(source[t].url, z, u.y[1]) = <<row, 1>>
            /\ (z = 5 /\ row = 10) => u.y[1] = 21
       /\ ("{!y}" \in marks /\ "{-y}" \notin marks) =>
            /\ u.y[2] > 0 /\ 2 * u.y[1] = u.y[2] * (2 ^ z - 2 - 2 * row)
            /\ (z = 5 /\ row = 10) => u.y = <<5, 1>>

\* the url of zoom 5, row 10 was built from a {-y} template, with row 21
FlippedRowOfExample ==
  \E t \in DOMAIN files :
    /\ fetched[t] # <<>> /\ "{-y}" \in source[t].url.marks
    /\ fetched[t][1].zoom = 5 /\ RowOf(source[t], 5) = 10
    /\ fetched[t][1].y = <<21, 1>>

\* --- the creation lock
\* C17: the creation lock is held only during the lookup of a host's lock,
\* never by a task that waits for or holds a host lock or has a request in
\* flight; a host's lock is held only by a call for that host, so a call
\* for another host finds the creation lock and its own host's lock free.
CreationLockNotHeldOverFetch ==
  /\ \A t \in Tasks : (domain_lock = t) <=> (gpc[t] = "lookup")
  /\ \A t \in Tasks : gpc[t] \in {"lock", "request"} => domain_lock # t
  /\ \A l \in 1..Len(locks) : locks[l] # NoTask =>
       /\ InFlight(locks[l])
       /\ domain_locks[url[locks[l]].netloc] = l
  /\ \A t1, t2 \in Tasks :
       (gpc[t1] \in {"lock", "request"} /\ url[t1].netloc # url[t2].netloc) =>
         /\ gpc[t2] = "domain_lock" => domain_lock \notin {t1, t2}
         /\ gpc[t2] = "lock" => locks[lock[t2]] # t1

\* requests to two hosts are in flight at once, the creation lock is free
TwoHostsInFlight ==
  \E t1, t2 \in Tasks :
    /\ InFlight(t1) /\ InFlight(t2) /\ url[t1].netloc # url[t2].netloc
    /\ domain_lock = NoTask

\* --- the order of the sweep
\* C18: a source's sweep fetches the zooms 0, 1, 2, ... in this order, at
\* most 20 of them; it calls get_url only when its call for the zoom before
\* has returned and its result was taken, and it fetches no zoom above the
\* one it stopped at.
SweepSequential ==
  /\ [](\A t \in DOMAIN files :
         /\ Len(fetched[t]) <= 20
         /\ \A k \in 1..Len(fetched[t]) : fetched[t][k].zoom = k - 1
         /\ InCall(t) <=> pc[t] = "await_get_url"
         /\ InCall(t) =>
              /\ url[t] = fetched[t][Len(fetched[t])]
              /\ Len(previous_images[t]) = Len(fetched[t]) - 1
         /\ pc[t] = "sleep" => Len(previous_images[t]) = Len(fetched[t])
         /\ Stopped(t) =>
              /\ Len(fetched[t]) = Len(previous_images[t]) + 1
              /\ min_zoom[t] = Some(Len(fetched[t]) - 1)
         /\ (SweepDone(t) /\ ~Stopped(t)) => Len(fetched[t]) = 20)
  /\ [][\A t \in DOMAIN files : fetched'[t] # fetched[t] =>
          /\ ~InCall(t)
          /\ Len(previous_images[t]) = Len(fetched[t])
          /\ Len(fetched'[t]) = Len(fetched[t]) + 1
          /\ SubSeq(fetched'[t], 1, Len(fetched[t])) = fetched[t]]_vars

\* one sweep has stopped at zoom 3 after four fetches while another sweep
\* waits for its second fetch
StoppedAfterFourFetches ==
  \E t1, t2 \in DOMAIN files :
    /\ Stopped(t1) /\ Len(fetched[t1]) = 4 /\ min_zoom[t1] = Some(3)
    /\ pc[t2] = "await_get_url" /\ Len(fetched[t2]) = 2

\* --- termination
\* no task is left to run, no call is open and no lock is held
RunFinished ==
  /\ \A t \in Tasks : pc[t] \in {"done", "nojob"} /\ ~InCall(t)
  /\ domain_lock = NoTask
  /\ \A l \in 1..Len(locks) : locks[l] = NoTask

\* C19: with a fair event loop and transport attempts that all end, a call
\* that has returned holds neither lock, every get_url call returns, and the
\* run of all launched tasks finishes with every lock released.
CallsReturnRunFinishes ==
  /\ [](\A t \in Tasks : gpc[t] \in {"none", "returned"} =>
          /\ domain_lock # t
          /\ \A l \in 1..Len(locks) : locks[l] # t)
  /\ \A t \in Tasks : InCall(t) ~> (gpc[t] = "returned")
  /\ <>[]RunFinished

\* the run has finished after two sources fetched, one of its fetches a failure
FinishedAfterFailure ==
  /\ RunFinished
  /\ \A t \in Tasks : pc[t] = "done" /\ fetched[t] # <<>>
  /\ \E u \in DOMAIN response_cache : IsFailure(response_cache[u])

\* --- the value the sweep reports
\* the task's sweep ends by break in this step
Stops(t) ==
  /\ pc[t] = "await_get_url" /\ pc'[t] = "done"
  /\ Len(previous_images'[t]) < NumZooms

\* C20: the sweep never reports 0: when it stops, the value is the zoom
\* being probed, which is the number of entries recorded so far and lies in
\* 1..19; no value is normalized to none, and a record that has a min_zoom
\* keeps the field in whatever is written.
DiscoveredNeverZero ==
  /\ [](\A t \in DOMAIN files :
         /\ min_zoom[t] # Some(0)
         /\ Stopped(t) => /\ min_zoom[t] = Some(zoom[t])
                          /\ zoom[t] = Len(previous_images[t])
                          /\ zoom[t] \in 1..19)
  /\ [][\A t \in DOMAIN files :
          /\ Stops(t) => /\ min_zoom'[t] = Some(zoom[t])
                         /\ zoom[t] = Len(previous_images[t])
                         /\ zoom[t] \in 1..19
          /\ files[t].min_zoom # None => files'[t].min_zoom # None]_vars

\* a sweep has stopped at zoom 1, the lowest it can report, and the record
\* that had min_zoom 3 now holds 1
StoppedAtZoomOne ==
  \E t \in DOMAIN files :
    /\ Stopped(t) /\ zoom[t] = 1 /\ min_zoom[t] = Some(1)
    /\ source[t].min_zoom = Some(3) /\ files[t].min_zoom = Some(1)

====
